---- MODULE Spec2Model ----
(***************************************************************************)
(* Model of orange-mini-api-rest: the DataProvider (ownership-partitioned  *)
(* DynamoDB store) and the GenericRestAPI dispatcher built on top of it.   *)
(*                                                                         *)
(* JavaScript values are the records [t, s, n]: t is the type, s the text  *)
(* of a string, n the value of a number (or 0/1 of a boolean).  An object  *)
(* is a function from its keys to such values.  null is <<>> and a         *)
(* non-null result x is <<x>>.                                             *)
(***************************************************************************)
EXTENDS Integers, Sequences, FiniteSets, TLC

VARIABLES
  db,        \* the DynamoDB table: uuid -> <<>> or <<marshalled item>>
  now,       \* Date.now()
  issued,    \* uuids that exist or have existed (v4 never repeats one)
  call,      \* the last direct DataProvider call: its arguments and result
  SCHEMAS,          \* GenericRestAPI._SCHEMAS: <<>> while undefined
  SCHEMAS_OPTIONS,  \* GenericRestAPI._SCHEMAS_OPTIONS: <<>> while undefined
  proc,      \* per request in flight: where its handler stands, and its locals
  resp       \* the response processRequest returned last

storeVars == <<db, now, issued>>
apiVars == <<SCHEMAS, SCHEMAS_OPTIONS, proc, resp>>

----------------------------------------------------------------------------
(* Bounds *)

MaxTime == 2
MaxUuid == 2

UuidNames == <<"x1", "x2", "x3", "x4">>
Uuids == {UuidNames[i] : i \in 1..MaxUuid}
Users == {"u1", "u2"}
Resources == {"article", "options"}
Times == 0..(MaxTime + 1)

----------------------------------------------------------------------------
(* JavaScript values *)

Str(s) == [t |-> "string", s |-> s, n |-> 0]
Num(n) == [t |-> "number", s |-> "", n |-> n]
Bool(b) == [t |-> "boolean", s |-> "", n |-> IF b THEN 1 ELSE 0]
Null == <<>>
Some(x) == <<x>>
Undef == -1          \* an option the caller did not give (undefined)
EmptyObject == [k \in {} |-> Str("")]

\* { ...a, ...b }
Spread(a, b) ==
  [k \in (DOMAIN a) \cup (DOMAIN b) |-> IF k \in DOMAIN b THEN b[k] ELSE a[k]]
\* delete o[key]
Delete(o, key) == [k \in (DOMAIN o) \ {key} |-> o[k]]

----------------------------------------------------------------------------
(* DataProvider: helpers *)

Prefix == ""

\* `${this.prefix || ''}/${userId}:${resource}` for a provider made with prefix
OwnerResourceType(prefix, userId, resource) ==
  (IF prefix /= "" THEN prefix ELSE "") \o "/" \o userId \o ":" \o resource

_getOwnerResourceType(userId, resource) ==
  OwnerResourceType(Prefix, userId, resource)

\* @aws-sdk/util-dynamodb marshall of one value: the DynamoDB type
\* descriptor (S, N, BOOL) with the value as text or number.
marshallValue(v) ==
  [T |-> CASE v.t = "string" -> "S"
           [] v.t = "number" -> "N"
           [] OTHER -> "BOOL",
   s |-> v.s, n |-> v.n]

unmarshallValue(a) ==
  [t |-> CASE a.T = "S" -> "string"
           [] a.T = "N" -> "number"
           [] OTHER -> "boolean",
   s |-> a.s, n |-> a.n]

\* marshall({ uuid, owned_resource_type, timestamp, data })
marshall(payload) ==
  [uuid |-> [S |-> payload.uuid],
   owned_resource_type |-> [S |-> payload.owned_resource_type],
   timestamp |-> marshallValue(payload.timestamp),
   data |-> [M |-> [k \in DOMAIN payload.data |-> marshallValue(payload.data[k])]]]

unmarshall(raw) ==
  [uuid |-> raw.uuid.S,
   owned_resource_type |-> raw.owned_resource_type.S,
   timestamp |-> unmarshallValue(raw.timestamp),
   data |-> [k \in DOMAIN raw.data.M |-> unmarshallValue(raw.data.M[k])]]

_formatItem(raw, is_raw) ==
  LET item == IF is_raw THEN unmarshall(raw) ELSE raw
      keys == ({"uuid", "timestamp"} \cup DOMAIN item.data) \ {"owned_resource_type"}
  IN  [k \in keys |->
         CASE k = "uuid" -> Str(item.uuid)
           [] k = "timestamp" -> item.timestamp
           [] OTHER -> item.data[k]]

----------------------------------------------------------------------------
(* The DynamoDB table behind the client.  The table key is uuid; the index *)
(* OwnedResources has partition key owned_resource_type and sort key       *)
(* timestamp, and keeps items of equal sort key in the order of the table  *)
(* key.                                                                    *)

Rank(uuid) == CHOOSE i \in 1..Len(UuidNames) : UuidNames[i] = uuid

Items(d) == {d[u][1] : u \in {x \in DOMAIN d : d[x] /= Null}}

\* position of [timestamp, uuid] a before b in the index, scanning forward
IndexBefore(a, b) ==
  \/ a.timestamp < b.timestamp
  \/ a.timestamp = b.timestamp /\ Rank(a.uuid) < Rank(b.uuid)

IndexKey(item) == [timestamp |-> item.timestamp.n, uuid |-> item.uuid.S]

RECURSIVE SortForward(_)
SortForward(S) ==
  IF S = {} THEN <<>>
  ELSE LET m == CHOOSE x \in S :
                  \A y \in S : x = y \/ IndexBefore(IndexKey(x), IndexKey(y))
       IN  <<m>> \o SortForward(S \ {m})

Reverse(seq) == [i \in 1..Len(seq) |-> seq[Len(seq) + 1 - i]]

Take(seq, k) == SubSeq(seq, 1, IF k < Len(seq) THEN k ELSE Len(seq))

\* DynamoDB rejects a BETWEEN whose lower bound exceeds the upper bound.
QueryRejected(params) == params.start > params.end

\* QueryCommand on index OwnedResources
QueryCommand(d, params) ==
  LET matching == {it \in Items(d) :
                     /\ it.owned_resource_type.S = params.ort
                     /\ it.timestamp.n >= params.start
                     /\ it.timestamp.n <= params.end}
      forward == SortForward(matching)
      ordered == IF params.ScanIndexForward THEN forward ELSE Reverse(forward)
      after(it) ==
        \/ params.ExclusiveStartKey = Null
        \/ IF params.ScanIndexForward
             THEN IndexBefore(params.ExclusiveStartKey[1], IndexKey(it))
             ELSE IndexBefore(IndexKey(it), params.ExclusiveStartKey[1])
      resumed == SelectSeq(ordered, after)
  IN  IF params.Limit = Undef THEN resumed ELSE Take(resumed, params.Limit)

\* GetItemCommand: res.Item
GetItemCommand(d, uuid) == IF uuid \in DOMAIN d THEN d[uuid] ELSE Null

\* PutItemCommand: unconditional overwrite under the item's uuid
PutItemCommand(d, item) ==
  [u \in (DOMAIN d) \cup {item.uuid.S} |->
     IF u = item.uuid.S THEN Some(item) ELSE d[u]]

\* DeleteItemCommand: no error when the key is absent
DeleteItemCommand(d, uuid) == [u \in DOMAIN d |-> IF u = uuid THEN Null ELSE d[u]]

----------------------------------------------------------------------------
(* DataProvider *)

\* search options nobody gave
NoSearch ==
  [start |-> Undef, end |-> Undef, sort |-> "", limit |-> Undef,
   last_uuid |-> "", last_timestamp |-> Undef]

\* a || b on numbers: undefined and 0 are falsy
OrNum(a, b) == IF a /= Undef /\ a /= 0 THEN a ELSE b

\* searchParams with the partition key built without the user
searchParams_NoUser(t, userId, resource, opts) ==
  [ort |-> _getOwnerResourceType("u1", resource),
   start |-> OrNum(opts.start, 0),
   end |-> OrNum(opts.end, t),
   ScanIndexForward |-> (opts.sort = "asc"),
   Limit |-> IF opts.limit /= Undef /\ opts.limit /= 0
               THEN opts.limit ELSE Undef,
   ExclusiveStartKey |->
     IF /\ opts.last_uuid /= ""
        /\ opts.last_timestamp /= Undef /\ opts.last_timestamp /= 0
       THEN Some([timestamp |-> opts.last_timestamp, uuid |-> opts.last_uuid])
       ELSE Null]

searchParams(t, userId, resource, opts) ==
  [ort |-> _getOwnerResourceType(userId, resource),
   start |-> OrNum(opts.start, 0),
   end |-> OrNum(opts.end, t),
   ScanIndexForward |-> (opts.sort = "asc"),
   Limit |-> IF opts.limit /= Undef /\ opts.limit /= 0
               THEN opts.limit ELSE Undef,
   ExclusiveStartKey |->
     IF /\ opts.last_uuid /= ""
        /\ opts.last_timestamp /= Undef /\ opts.last_timestamp /= 0
       THEN Some([timestamp |-> opts.last_timestamp, uuid |-> opts.last_uuid])
       ELSE Null]

\* search: [threw, items]
search(d, t, userId, resource, opts) ==
  LET params == searchParams(t, userId, resource, opts)
  IN  IF QueryRejected(params)
        THEN [threw |-> TRUE, items |-> <<>>]
        ELSE [threw |-> FALSE,
              items |-> LET res == QueryCommand(d, params)
                        IN  [i \in 1..Len(res) |-> _formatItem(res[i], TRUE)]]

\* getAndCheckAccess without the comparison of owner tags
getAndCheckAccess_NoOwnerCheck(d, userId, resource, uuid) ==
  LET res == GetItemCommand(d, uuid)
  IN  IF res = Null THEN Null ELSE Some(_formatItem(res[1], TRUE))

\* getAndCheckAccess: null or the item
getAndCheckAccess(d, userId, resource, uuid) ==
  LET res == GetItemCommand(d, uuid)
  IN  IF res = Null THEN Null
      ELSE IF res[1].owned_resource_type.S /= _getOwnerResourceType(userId, resource)
        THEN Null
      ELSE Some(_formatItem(res[1], TRUE))

\* remove that builds its command and does not send it
remove_NotSent(d, uuid) == d

\* remove: the table afterwards (the call returns true)
remove(d, uuid) == DeleteItemCommand(d, uuid)

\* the payload save builds; v4 is the identifier uuid.v4() would return
savePayload(t, v4, userId, resource, data_raw, current_uuid) ==
  LET uuid == IF current_uuid /= "" THEN current_uuid ELSE v4
      timestamp == IF "timestamp" \in DOMAIN data_raw
                     THEN data_raw["timestamp"] ELSE Num(t)
      data == Delete(data_raw, "timestamp")
  IN  [uuid |-> uuid,
       owned_resource_type |-> _getOwnerResourceType(userId, resource),
       timestamp |-> timestamp,
       data |-> data]

\* save returning the item with the time of the call as its timestamp
save_ReturnsNow(d, t, v4, userId, resource, data_raw, current_uuid) ==
  LET payload == savePayload(t, v4, userId, resource, data_raw, current_uuid)
  IN  [db |-> PutItemCommand(d, marshall(payload)),
       item |-> _formatItem([payload EXCEPT !.timestamp = Num(t)], FALSE)]

\* save: [db, item]
save(d, t, v4, userId, resource, data_raw, current_uuid) ==
  LET payload == savePayload(t, v4, userId, resource, data_raw, current_uuid)
  IN  [db |-> PutItemCommand(d, marshall(payload)),
       item |-> _formatItem(payload, FALSE)]

----------------------------------------------------------------------------
(* Direct use of a DataProvider: one call at a time, its result kept in    *)
(* call.  first is the result of the call before it, when the call         *)
(* continues that one (the next page of a search, the read after a save).  *)

SearchSamples ==
  { NoSearch,
    [NoSearch EXCEPT !.sort = "asc"],
    [NoSearch EXCEPT !.sort = "desc", !.limit = 1],
    [NoSearch EXCEPT !.sort = "asc", !.limit = 1],
    [NoSearch EXCEPT !.limit = 0],
    [NoSearch EXCEPT !.start = 1, !.end = 1],
    [NoSearch EXCEPT !.start = 0, !.end = 0],
    [NoSearch EXCEPT !.start = MaxTime, !.end = 1],
    [NoSearch EXCEPT !.last_uuid = UuidNames[1], !.last_timestamp = 1],
    [NoSearch EXCEPT !.last_uuid = UuidNames[1], !.last_timestamp = 0],
    [NoSearch EXCEPT !.sort = "asc", !.last_uuid = UuidNames[1], !.last_timestamp = 1] }

DataSamples ==
  { EmptyObject,
    [name |-> Str("X")],
    [name |-> Str("X"), timestamp |-> Num(0)],
    [name |-> Str("Y"), timestamp |-> Num(MaxTime + 1)] }

NoCall ==
  [op |-> "none", userId |-> "", resource |-> "", uuid |-> "", opts |-> NoSearch,
   data |-> EmptyObject, current_uuid |-> "", view |-> "", keys |-> <<>>,
   prefix |-> "",
   at |-> 0, threw |-> FALSE, out |-> <<>>, first |-> <<>>]

Tick ==
  /\ now < MaxTime
  /\ now' = now + 1
  /\ UNCHANGED <<db, issued, call, apiVars>>

CallSearch(userId, resource, opts) ==
  LET res == search(db, now, userId, resource, opts)
  IN  /\ call' = [NoCall EXCEPT !.op = "search", !.userId = userId,
                    !.resource = resource, !.opts = opts, !.at = now,
                    !.threw = res.threw, !.out = res.items]
      /\ UNCHANGED <<storeVars, apiVars>>

\* the next page: the same search without limit, resumed after the last
\* item of the page that call holds
CallSearchNext ==
  /\ call.op = "search"
  /\ ~call.threw
  /\ call.opts.limit /= Undef
  /\ call.out /= <<>>
  /\ LET last == call.out[Len(call.out)]
         opts == [call.opts EXCEPT !.limit = Undef,
                    !.last_uuid = last["uuid"].s,
                    !.last_timestamp = last["timestamp"].n]
         res == search(db, now, call.userId, call.resource, opts)
     IN  call' = [call EXCEPT !.op = "next", !.opts = opts,
                    !.threw = res.threw, !.out = res.items, !.first = call.out]
  /\ UNCHANGED <<storeVars, apiVars>>

CallGetAndCheckAccess(userId, resource, uuid) ==
  /\ call' = [NoCall EXCEPT !.op = "getAndCheckAccess", !.userId = userId,
                !.resource = resource, !.uuid = uuid, !.at = now,
                !.out = getAndCheckAccess(db, userId, resource, uuid),
                !.first = IF /\ call.op = "save"
                             /\ call.userId = userId
                             /\ call.resource = resource
                             /\ call.uuid = uuid
                            THEN call.out ELSE <<>>]
  /\ UNCHANGED <<storeVars, apiVars>>

CallSave(userId, resource, data_raw, current_uuid) ==
  \E v4 \in Uuids :
    /\ current_uuid = "" => v4 \notin issued
    /\ current_uuid /= "" => v4 = current_uuid
    /\ LET res == save(db, now, v4, userId, resource, data_raw, current_uuid)
       IN  /\ db' = res.db
           /\ call' = [NoCall EXCEPT !.op = "save", !.userId = userId,
                         !.resource = resource, !.uuid = res.item["uuid"].s,
                         !.data = data_raw, !.current_uuid = current_uuid,
                         !.at = now, !.out = Some(res.item)]
    /\ issued' = issued \cup {v4}
    /\ UNCHANGED <<now, apiVars>>

CallRemove(uuid) ==
  /\ db' = remove(db, uuid)
  /\ call' = [NoCall EXCEPT !.op = "remove", !.uuid = uuid, !.at = now,
                !.out = Some(Bool(TRUE)),
                !.first = IF call.op = "remove" /\ call.uuid = uuid
                            THEN call.out ELSE <<>>]
  /\ UNCHANGED <<now, issued, apiVars>>

----------------------------------------------------------------------------
(* GenericRestAPI: the registry *)

\* registerResource that keeps the options a name already has
registerResource_KeepsOptions(S, O, name, schema, options) ==
  LET s0 == IF S = Null THEN EmptyObject ELSE S[1]
      o0 == IF O = Null THEN EmptyObject ELSE O[1]
  IN  [SCHEMAS |-> Some([k \in (DOMAIN s0) \cup {name} |->
                           IF k = name THEN schema ELSE s0[k]]),
       SCHEMAS_OPTIONS |-> Some([k \in (DOMAIN o0) \cup {name} |->
                                   IF k \in DOMAIN o0 THEN o0[k] ELSE options])]

\* registerResource(name, schema, options): the two tables afterwards
registerResource(S, O, name, schema, options) ==
  LET s0 == IF S = Null THEN EmptyObject ELSE S[1]
      o0 == IF O = Null THEN EmptyObject ELSE O[1]
  IN  [SCHEMAS |-> Some([k \in (DOMAIN s0) \cup {name} |->
                           IF k = name THEN schema ELSE s0[k]]),
       SCHEMAS_OPTIONS |-> Some([k \in (DOMAIN o0) \cup {name} |->
                                   IF k = name THEN options ELSE o0[k]])]

\* getSchema throws while nothing is registered
getSchemaThrows == SCHEMAS = Null
getSchema(name) ==
  IF name \in DOMAIN SCHEMAS[1] THEN Some(SCHEMAS[1][name]) ELSE Null

getResourceOptionsThrows == SCHEMAS_OPTIONS = Null
getResourceOptions(name) ==
  IF name \in DOMAIN SCHEMAS_OPTIONS[1] THEN Some(SCHEMAS_OPTIONS[1][name]) ELSE Null

\* A view: kind is "function", "array", "object" or anything else; from and
\* to list the fields kept and the names they get.
ArrayView(fields) == [kind |-> "array", from |-> fields, to |-> fields]
ObjectView(from, to) == [kind |-> "object", from |-> from, to |-> to]
NoViews == [v \in {} |-> ArrayView(<<>>)]

Range(seq) == {seq[i] : i \in 1..Len(seq)}

\* the resources the process registers when it starts
ArticleSchema == [name |-> "string"]
ArticleOptions ==
  [single |-> FALSE,
   views |-> [default |-> ArrayView(<<"uuid", "name", "timestamp">>),
              brief |-> ArrayView(<<"uuid", "name">>),
              arr_view |-> ArrayView(<<"uuid">>),
              obj_view |-> ObjectView(<<"uuid", "name">>, <<"id", "name">>),
              titled |-> ObjectView(<<"name", "uuid">>, <<"title", "id">>),
              fn_view |-> [kind |-> "function", from |-> <<>>, to |-> <<>>],
              raw |-> [kind |-> "string", from |-> <<>>, to |-> <<>>]]]
OptionsSchema == [name |-> "string", timestamp |-> "integer"]
OptionsOptions == [single |-> TRUE, views |-> NoViews]

Registered ==
  LET r1 == registerResource(Null, Null, "article", ArticleSchema, ArticleOptions)
  IN  registerResource(r1.SCHEMAS, r1.SCHEMAS_OPTIONS,
                       "options", OptionsSchema, OptionsOptions)

----------------------------------------------------------------------------
(* orange-dragonfly-validator, as the dispatcher uses it: strict mode, so  *)
(* a key the schema does not declare fails, as does a value of the wrong   *)
(* type.  The result is the set of keys that fail (empty: valid).          *)

TypeOk(type, v) ==
  CASE type = "string" -> v.t = "string"
    [] type = "integer" -> v.t = "number"
    [] OTHER -> FALSE

validate(schema, input) ==
  {k \in DOMAIN input : k \notin DOMAIN schema \/ ~TypeOk(schema[k], input[k])}

\* a query nobody filled in
NoQuery ==
  [start |-> Undef, end |-> Undef, sort |-> "", limit |-> Undef,
   last_uuid |-> "", last_timestamp |-> Undef, view |-> ""]

Invalid == -2      \* a number that fails min: 0

\* a LIST_SCHEMA that had sort among its keys
validateList_WithSort(query) ==
  {k \in {"start", "end", "limit", "last_timestamp"} : query[k] = Invalid}

\* validate(LIST_SCHEMA, query): sort is no key of LIST_SCHEMA
validateList(query) ==
  {k \in {"start", "end", "limit", "last_timestamp"} : query[k] = Invalid}
    \cup (IF query.sort /= "" THEN {"sort"} ELSE {})

\* validate(ITEM_SCHEMA, query): view is its only key
validateItem(query) ==
  {k \in {"start", "end", "limit", "last_timestamp"} : query[k] /= Undef}
    \cup (IF query.sort /= "" THEN {"sort"} ELSE {})
    \cup (IF query.last_uuid /= "" THEN {"last_uuid"} ELSE {})

\* the view after validation: the schema's default when none was given
viewOf(query) == IF query.view = "" THEN "default" ELSE query.view

----------------------------------------------------------------------------
(* GenericRestAPI.formatItem: [threw, out] *)

\* formatItem for which a view the resource does not declare is an error
formatItem_UnknownViewThrows(resource, payload, view_) ==
  LET options == getResourceOptions(resource)[1]
      view == IF view_ = "" THEN "default" ELSE view_
  IN  [threw |-> view \notin DOMAIN options.views, out |-> payload]

\* formatItem that returns the record as it is for a view of a shape it
\* does not know
formatItem_AnyShape(resource, payload, view_) ==
  LET options == getResourceOptions(resource)[1]
      view == IF view_ = "" THEN "default" ELSE view_
      known == view \in DOMAIN options.views
      kind == IF known THEN options.views[view].kind ELSE ""
  IN  [threw |-> FALSE,
       out |-> IF kind = "function" THEN Spread(payload, [random |-> Num(0)])
               ELSE IF kind = "array"
                 THEN [k \in (DOMAIN payload) \cap Range(options.views[view].from)
                         |-> payload[k]]
               ELSE payload]

\* view_ = "" is the argument left out: view = 'default'
formatItem(resource, payload, view_) ==
  LET options == getResourceOptions(resource)[1]
      view == IF view_ = "" THEN "default" ELSE view_
  IN  IF view \in DOMAIN options.views
        THEN LET format == options.views[view]
             IN  CASE format.kind = "function" ->
                        [threw |-> FALSE,
                         out |-> Spread(payload, [random |-> Num(0)])]
                   [] format.kind = "array" ->
                        [threw |-> FALSE,
                         out |-> [k \in (DOMAIN payload) \cap Range(format.from)
                                    |-> payload[k]]]
                   [] format.kind = "object" ->
                        [threw |-> FALSE,
                         out |-> [o \in {format.to[i] : i \in
                                          {j \in 1..Len(format.from) :
                                             format.from[j] \in DOMAIN payload}}
                                    |-> payload[format.from[
                                          CHOOSE i \in 1..Len(format.to) :
                                            format.to[i] = o]]]]
                   [] OTHER -> [threw |-> TRUE, out |-> payload]
        ELSE [threw |-> FALSE, out |-> payload]

\* The order of the keys of an object, which JSON.stringify follows.  A
\* record in its external form has uuid and timestamp first, then the
\* fields of its data (name is the one field the schemas here declare).
KeysOf(payload) ==
  LET Has(k) == k \in DOMAIN payload
  IN  SelectSeq(<<"uuid", "timestamp", "name">>, Has)

\* the order of the keys of what formatItem returns: the views walk
\* Object.entries(payload) and assign the entries kept one after the other
formatItemKeys(resource, payload, view_) ==
  LET options == getResourceOptions(resource)[1]
      view == IF view_ = "" THEN "default" ELSE view_
      keys == KeysOf(payload)
  IN  IF view \in DOMAIN options.views
        THEN LET format == options.views[view]
                 InView(k) == k \in Range(format.from)
                 kept == SelectSeq(keys, InView)
                 To(k) == format.to[CHOOSE i \in 1..Len(format.from) :
                                      format.from[i] = k]
             IN  CASE format.kind = "function" -> keys \o <<"random">>
                   [] format.kind = "array" -> kept
                   [] format.kind = "object" ->
                        [i \in 1..Len(kept) |-> To(kept[i])]
                   [] OTHER -> keys
        ELSE keys

----------------------------------------------------------------------------
(* ApiGateway: the envelope of a response, kept as a record.  out holds    *)
(* the item (or the items, when list) of the body.                         *)

\* A request as parseEvent and the router hand it over: parsed is false for
\* a body that is no JSON, user is "" when the event names none, verb is
\* the route that matches method and path.
NoRequest ==
  [parsed |-> TRUE, user |-> "", verb |-> "DEFAULT", resource |-> "",
   uuid |-> "", body |-> EmptyObject, query |-> NoQuery]

\* what a handler holds between two calls of the store: the request, the
\* route's parameters, the payload to save, the commands sent so far
Idle ==
  [pc |-> "idle", request |-> NoRequest, verb |-> "", user |-> "",
   resource |-> "", uuid |-> "", payload |-> EmptyObject, view |-> "",
   sent |-> <<>>]

\* a response, with the request it answers, the uuid of the route it came
\* from and the commands the handler sent
NoResp ==
  [request |-> NoRequest, verb |-> "", uuid |-> "", statusCode |-> 0,
   threw |-> FALSE, message |-> "", details |-> {}, list |-> FALSE,
   out |-> <<>>, sent |-> <<>>]

\* ApiGateway.response(body, statusCode)
response(k, out, list, statusCode) ==
  [NoResp EXCEPT !.request = k.request, !.verb = k.verb, !.uuid = k.uuid, !.statusCode = statusCode,
                 !.list = list, !.out = out, !.sent = k.sent]

\* ApiGateway.error(message, statusCode, errorDetails)
error(k, message, statusCode, errorDetails) ==
  [NoResp EXCEPT !.request = k.request, !.verb = k.verb, !.uuid = k.uuid, !.statusCode = statusCode,
                 !.message = message, !.details = errorDetails, !.sent = k.sent]

\* an exception that leaves processRequest
thrown(k, message) ==
  [NoResp EXCEPT !.request = k.request, !.verb = k.verb, !.uuid = k.uuid, !.threw = TRUE,
                 !.message = message, !.sent = k.sent]

\* the catch of processRequest
ValidationError(k, info) == error(k, "Validation error", 422, info)
\* the catch answering with the text of the error it caught
SomethingWentWrong_Leaks(k) == error(k, "Error", 500, {"stack"})

SomethingWentWrong(k) == error(k, "Something went wrong", 500, {})

Done(d, r) == [db |-> d, k |-> Idle, resp |-> Some(r)]
Cont(d, k) == [db |-> d, k |-> k, resp |-> Null]
Sent(k, command) == [k EXCEPT !.sent = Append(k.sent, command)]

\* formatItem, then the response with the given status
Formatted(d, k, item, statusCode) ==
  LET f == formatItem(k.resource, item, k.view)
  IN  IF f.threw THEN Done(d, SomethingWentWrong(k))
      ELSE Done(d, response(k, Some(f.out), FALSE, statusCode))

----------------------------------------------------------------------------
(* GenericRestAPI: the route handlers, each cut at its calls of the store. *)
(* A piece takes the table d, the time t, the identifier v4 that uuid.v4() *)
(* returns if called, and yields [db, k, resp]: the table afterwards, what *)
(* is left to do, and the response once there is one.                      *)

\* routeGet answering with the whole list whatever the resource's options
routeGet_NeverSingle(d, t, k, query) ==
  LET invalid == validateList(query)
      k1 == Sent(k, "Query")
      res == search(d, t, k.user, k.resource, query)
      fs == [i \in 1..Len(res.items) |-> formatItem(k.resource, res.items[i], k.view)]
      output == [i \in 1..Len(fs) |-> fs[i].out]
  IN  IF invalid /= {} THEN Done(d, ValidationError(k, invalid))
      ELSE IF res.threw THEN Done(d, SomethingWentWrong(k1))
      ELSE IF \E i \in 1..Len(fs) : fs[i].threw THEN Done(d, SomethingWentWrong(k1))
      ELSE Done(d, response(k1, output, TRUE, 200))

routeGet(d, t, k, query) ==
  LET invalid == validateList(query)
      k1 == Sent(k, "Query")
      res == search(d, t, k.user, k.resource, query)
      fs == [i \in 1..Len(res.items) |-> formatItem(k.resource, res.items[i], k.view)]
      output == [i \in 1..Len(fs) |-> fs[i].out]
      options == getResourceOptions(k.resource)[1]
  IN  IF invalid /= {} THEN Done(d, ValidationError(k, invalid))
      ELSE IF res.threw THEN Done(d, SomethingWentWrong(k1))
      ELSE IF \E i \in 1..Len(fs) : fs[i].threw THEN Done(d, SomethingWentWrong(k1))
      ELSE IF options.single
        THEN IF Len(output) > 0
               THEN Done(d, response(k1, Some(output[1]), FALSE, 200))
               ELSE Done(d, error(k1, "Object not found", 404, {}))
      ELSE Done(d, response(k1, output, TRUE, 200))

\* routeReplaceItem that saves under the path's uuid whatever uuid the body
\* carries
replacePrelude_NoUuidCheck(d, k, body, query) ==
  LET invalidQuery == validateItem(query)
      schema == getSchema(k.resource)[1]
      p1 == Delete(body, "uuid")
      payload == IF "timestamp" \in DOMAIN p1 /\ "timestamp" \notin DOMAIN schema
                   THEN Delete(p1, "timestamp") ELSE p1
      invalid == validate(schema, payload)
  IN  IF invalidQuery /= {} THEN Done(d, ValidationError(k, invalidQuery))
      ELSE IF invalid /= {} THEN Done(d, ValidationError(k, invalid))
      ELSE Cont(d, [k EXCEPT !.pc = "replace_get", !.payload = payload])

\* routeReplaceItem up to its getAndCheckAccess
replacePrelude(d, k, body, query) ==
  LET invalidQuery == validateItem(query)
      schema == getSchema(k.resource)[1]
      p1 == Delete(body, "uuid")
      payload == IF "timestamp" \in DOMAIN p1 /\ "timestamp" \notin DOMAIN schema
                   THEN Delete(p1, "timestamp") ELSE p1
      invalid == validate(schema, payload)
  IN  IF invalidQuery /= {} THEN Done(d, ValidationError(k, invalidQuery))
      ELSE IF "uuid" \in DOMAIN body /\ body["uuid"] /= Str(k.uuid)
        THEN Done(d, error(k, "UUID does't match", 400, {}))
      ELSE IF invalid /= {} THEN Done(d, ValidationError(k, invalid))
      ELSE Cont(d, [k EXCEPT !.pc = "replace_get", !.payload = payload])

\* routeReplaceItem that saves before it looks the record up
replaceGet_SavesFirst(d, k) ==
  LET k1 == Sent(Sent(k, "PutItem"), "GetItem")
      item == getAndCheckAccess(d, k.user, k.resource, k.uuid)
      res == save(d, 0, "", k.user, k.resource, k.payload, k.uuid)
  IN  IF item = Null THEN Done(res.db, error(k1, "Object not found", 404, {}))
      ELSE Formatted(res.db, k1, res.item, 200)

replaceGet(d, k) ==
  LET k1 == Sent(k, "GetItem")
      item == getAndCheckAccess(d, k.user, k.resource, k.uuid)
  IN  IF item = Null THEN Done(d, error(k1, "Object not found", 404, {}))
      ELSE Cont(d, [k1 EXCEPT !.pc = "replace_save"])

replaceSave(d, t, k) ==
  LET k1 == Sent(k, "PutItem")
      res == save(d, t, "", k.user, k.resource, k.payload, k.uuid)
  IN  Formatted(res.db, k1, res.item, 200)

routeReplaceItem(d, k, body, query) ==
  LET pre == replacePrelude(d, k, body, query)
  IN  IF pre.resp /= Null THEN pre ELSE replaceGet(d, pre.k)

postSave(d, t, v4, k) ==
  LET k1 == Sent(k, "PutItem")
      res == save(d, t, v4, k.user, k.resource, k.payload, "")
  IN  Formatted(res.db, k1, res.item, 201)

routePost(d, t, v4, k, body, query) ==
  LET invalidQuery == validateItem(query)
      options == getResourceOptions(k.resource)[1]
      k1 == Sent(k, "Query")
      items == search(d, t, k.user, k.resource, [NoSearch EXCEPT !.limit = 1]).items
      invalid == validate(getSchema(k.resource)[1], body)
      create(kk) == [kk EXCEPT !.pc = "post_save", !.payload = body]
  IN  IF invalidQuery /= {} THEN Done(d, ValidationError(k, invalidQuery))
      ELSE IF options.single
        THEN IF Len(items) > 0
               THEN replacePrelude(d, [k1 EXCEPT !.uuid = items[1]["uuid"].s],
                                   body, query)
             ELSE IF invalid /= {} THEN Done(d, ValidationError(k1, invalid))
             ELSE Cont(d, create(k1))
      ELSE IF invalid /= {} THEN Done(d, ValidationError(k, invalid))
      ELSE postSave(d, t, v4, create(k))

routeGetItem(d, k, query) ==
  LET invalidQuery == validateItem(query)
      k1 == Sent(k, "GetItem")
      item == getAndCheckAccess(d, k.user, k.resource, k.uuid)
  IN  IF invalidQuery /= {} THEN Done(d, ValidationError(k, invalidQuery))
      ELSE IF item = Null THEN Done(d, error(k1, "Object not found", 404, {}))
      ELSE Formatted(d, k1, item[1], 200)

\* routeUpdateItem merging with the stored fields winning over the body's
routeUpdateItem_ItemWins(d, k, body, query) ==
  LET invalidQuery == validateItem(query)
      schema == getSchema(k.resource)[1]
      k1 == Sent(k, "GetItem")
      item == getAndCheckAccess(d, k.user, k.resource, k.uuid)
      p1 == Delete(Spread(body, item[1]), "uuid")
      payload == IF "timestamp" \notin DOMAIN schema
                   THEN Delete(p1, "timestamp") ELSE p1
      invalid == validate(schema, payload)
  IN  IF invalidQuery /= {} THEN Done(d, ValidationError(k, invalidQuery))
      ELSE IF item = Null THEN Done(d, error(k1, "Object not found", 404, {}))
      ELSE IF invalid /= {} THEN Done(d, ValidationError(k1, invalid))
      ELSE Cont(d, [k1 EXCEPT !.pc = "update_save", !.payload = payload])

\* routeUpdateItem validating the body before it reads the record
routeUpdateItem_ValidateFirst(d, k, body, query) ==
  LET invalidQuery == validateItem(query)
      schema == getSchema(k.resource)[1]
      k1 == Sent(k, "GetItem")
      item == getAndCheckAccess(d, k.user, k.resource, k.uuid)
      p1 == Delete(Spread(item[1], body), "uuid")
      payload == IF "timestamp" \notin DOMAIN schema
                   THEN Delete(p1, "timestamp") ELSE p1
      invalid == validate(schema, Delete(body, "uuid"))
  IN  IF invalidQuery /= {} THEN Done(d, ValidationError(k, invalidQuery))
      ELSE IF invalid /= {} THEN Done(d, ValidationError(k, invalid))
      ELSE IF item = Null THEN Done(d, error(k1, "Object not found", 404, {}))
      ELSE Cont(d, [k1 EXCEPT !.pc = "update_save", !.payload = payload])

\* routeUpdateItem that goes on to save when it finds no record
routeUpdateItem_Upsert(d, k, body, query) ==
  LET invalidQuery == validateItem(query)
      k1 == Sent(k, "GetItem")
      item == getAndCheckAccess(d, k.user, k.resource, k.uuid)
      payload == Delete(IF item = Null THEN body ELSE Spread(item[1], body), "uuid")
  IN  IF invalidQuery /= {} THEN Done(d, ValidationError(k, invalidQuery))
      ELSE Cont(d, [k1 EXCEPT !.pc = "update_save", !.payload = payload])

routeUpdateItem(d, k, body, query) ==
  LET invalidQuery == validateItem(query)
      schema == getSchema(k.resource)[1]
      k1 == Sent(k, "GetItem")
      item == getAndCheckAccess(d, k.user, k.resource, k.uuid)
      p1 == Delete(Spread(item[1], body), "uuid")
      payload == IF "timestamp" \notin DOMAIN schema
                   THEN Delete(p1, "timestamp") ELSE p1
      invalid == validate(schema, payload)
  IN  IF invalidQuery /= {} THEN Done(d, ValidationError(k, invalidQuery))
      ELSE IF item = Null THEN Done(d, error(k1, "Object not found", 404, {}))
      ELSE IF invalid /= {} THEN Done(d, ValidationError(k1, invalid))
      ELSE Cont(d, [k1 EXCEPT !.pc = "update_save", !.payload = payload])

updateSave(d, t, k) ==
  LET k1 == Sent(k, "PutItem")
      res == save(d, t, "", k.user, k.resource, k.payload, k.uuid)
  IN  Formatted(res.db, k1, res.item, 200)

\* routeDeleteItem with the lookup not comparing owner tags
routeDeleteItem_AnyOwner(d, k) ==
  LET k1 == Sent(k, "GetItem")
      item == getAndCheckAccess_NoOwnerCheck(d, k.user, k.resource, k.uuid)
  IN  IF item = Null THEN Done(d, error(k1, "Object not found", 404, {}))
      ELSE Cont(d, [k1 EXCEPT !.pc = "delete_remove"])

routeDeleteItem(d, k) ==
  LET k1 == Sent(k, "GetItem")
      item == getAndCheckAccess(d, k.user, k.resource, k.uuid)
  IN  IF item = Null THEN Done(d, error(k1, "Object not found", 404, {}))
      ELSE Cont(d, [k1 EXCEPT !.pc = "delete_remove"])

deleteRemove(d, t, k) ==
  LET k1 == Sent(k, "DeleteItem")
  IN  Done(remove(d, k.uuid),
           [response(k1, Some([message |-> Str("Deleted"), timestamp |-> Num(t)]),
                     FALSE, 200) EXCEPT !.message = "Deleted"])

routeDefault(d, k) == Done(d, error(k, "Endpoint not found", 404, {}))

\* the handler of the route that matches
Handler(d, t, v4, k, request) ==
  CASE request.verb = "LIST" -> routeGet(d, t, k, request.query)
    [] request.verb = "CREATE" -> routePost(d, t, v4, k, request.body, request.query)
    [] request.verb = "GET" -> routeGetItem(d, k, request.query)
    [] request.verb = "REPLACE" -> routeReplaceItem(d, k, request.body, request.query)
    [] request.verb = "UPDATE" -> routeUpdateItem(d, k, request.body, request.query)
    [] request.verb = "DELETE" -> routeDeleteItem(d, k)
    [] OTHER -> routeDefault(d, k)

\* processRequest looking the resource up before it looks for the user
processRequest_ResourceFirst(d, t, v4, request) ==
  LET k == [Idle EXCEPT !.request = request, !.verb = request.verb,
                        !.user = request.user,
                        !.resource = request.resource, !.uuid = request.uuid,
                        !.view = viewOf(request.query)]
  IN  IF ~request.parsed THEN Done(d, error(k, "Incorrect request", 400, {}))
      ELSE IF request.verb /= "DEFAULT" /\ getSchema(request.resource) = Null
        THEN Done(d, error(k, "Resource type not found", 404, {}))
      ELSE IF request.user = ""
        THEN Done(d, error(k, "User ID not found in the event", 401, {}))
      ELSE Handler(d, t, v4, k, request)

\* processRequest up to and including the handler's first call of the store
processRequest(d, t, v4, request) ==
  LET k == [Idle EXCEPT !.request = request, !.verb = request.verb, !.user = request.user,
                        !.resource = request.resource, !.uuid = request.uuid,
                        !.view = viewOf(request.query)]
  IN  IF ~request.parsed THEN Done(d, error(k, "Incorrect request", 400, {}))
      ELSE IF request.user = ""
        THEN Done(d, error(k, "User ID not found in the event", 401, {}))
      ELSE IF request.verb /= "DEFAULT" /\ getSchemaThrows
        THEN Done(d, thrown(k, "Schemas are not registered"))
      ELSE IF request.verb /= "DEFAULT" /\ getSchema(request.resource) = Null
        THEN Done(d, error(k, "Resource type not found", 404, {}))
      ELSE Handler(d, t, v4, k, request)

\* the rest of a handler, from one call of the store to the next
Advance(d, t, v4, k) ==
  CASE k.pc = "replace_get" -> replaceGet(d, k)
    [] k.pc = "replace_save" -> replaceSave(d, t, k)
    [] k.pc = "update_save" -> updateSave(d, t, k)
    [] k.pc = "post_save" -> postSave(d, t, v4, k)
    [] k.pc = "delete_remove" -> deleteRemove(d, t, k)

\* a handler run from a point to its response with nothing in between
RECURSIVE Run(_, _, _)
Run(t, v4, r) ==
  IF r.resp /= Null THEN r ELSE Run(t, v4, Advance(r.db, t, v4, r.k))

\* whether a response comes from a handler that stored a new record
StoredNew(r) ==
  r.verb = "CREATE" /\ r.uuid = "" /\ "PutItem" \in Range(r.sent)

Procs == {"p1", "p2"}

StoreInit ==
  /\ db = [u \in Uuids |-> Null]
  /\ now = 1
  /\ issued = {}
  /\ call = NoCall
  /\ SCHEMAS = Null
  /\ SCHEMAS_OPTIONS = Null
  /\ proc = [p \in Procs |-> Idle]
  /\ resp = NoResp

StoreNext ==
  \/ Tick
  \/ \E userId \in Users, resource \in Resources, opts \in SearchSamples :
       CallSearch(userId, resource, opts)
  \/ CallSearchNext
  \/ \E userId \in Users, resource \in Resources, uuid \in Uuids :
       CallGetAndCheckAccess(userId, resource, uuid)
  \/ \E userId \in Users, resource \in Resources, data_raw \in DataSamples,
        current_uuid \in Uuids \cup {""} :
       CallSave(userId, resource, data_raw, current_uuid)
  \/ \E uuid \in Uuids : CallRemove(uuid)

vars == <<db, now, issued, call, SCHEMAS, SCHEMAS_OPTIONS, proc, resp>>

SpecStore == StoreInit /\ [][StoreNext]_vars

----------------------------------------------------------------------------
(* The dispatcher serving requests one after the other *)

BodySamples ==
  { [name |-> Str("X")],
    [name |-> Str("Y")],
    [name |-> Bool(TRUE)],
    [name |-> Str("X"), timestamp |-> Num(MaxTime + 1)],
    [name |-> Str("X"), uuid |-> Str(UuidNames[1])] }

ListQueries ==
  { NoQuery,
    [NoQuery EXCEPT !.view = "brief"],
    [NoQuery EXCEPT !.view = "raw"],
    [NoQuery EXCEPT !.start = MaxTime, !.end = 1],
    [NoQuery EXCEPT !.limit = 1],
    [NoQuery EXCEPT !.sort = "asc"],
    [NoQuery EXCEPT !.limit = Invalid] }

ItemQueries == { NoQuery, [NoQuery EXCEPT !.view = "brief"] }

\* what the first user may ask: queries and views on the resource that has
\* views, every body on both resources; the second user only creates
\* records, for the first to run into
Requests ==
  {[NoRequest EXCEPT !.user = "u1", !.verb = "LIST", !.resource = "article",
                     !.query = q] : q \in ListQueries}
  \cup
  {[NoRequest EXCEPT !.user = "u1", !.verb = "GET", !.resource = "article",
                     !.uuid = x, !.query = q] : x \in Uuids, q \in ItemQueries}
  \cup
  {[NoRequest EXCEPT !.user = "u1", !.verb = "GET", !.resource = "options",
                     !.uuid = x] : x \in Uuids}
  \cup
  {[NoRequest EXCEPT !.user = "u1", !.verb = "LIST", !.resource = "options"]}
  \cup
  {[NoRequest EXCEPT !.user = "u1", !.verb = "CREATE", !.resource = r, !.body = b] :
     r \in Resources, b \in BodySamples}
  \cup
  {[NoRequest EXCEPT !.user = "u1", !.verb = "REPLACE", !.resource = r, !.uuid = x,
                     !.body = b] :
     r \in Resources, x \in Uuids, b \in BodySamples}
  \cup
  {[NoRequest EXCEPT !.user = "u1", !.verb = "UPDATE", !.resource = r, !.uuid = x,
                     !.body = b] :
     r \in Resources, x \in Uuids,
     b \in {EmptyObject} \cup (BodySamples \ {[name |-> Str("X")]})}
  \cup
  {[NoRequest EXCEPT !.user = "u1", !.verb = "DELETE", !.resource = r, !.uuid = x] :
     r \in Resources, x \in Uuids}
  \cup
  {[NoRequest EXCEPT !.user = "u2", !.verb = "CREATE", !.resource = r,
                     !.body = [name |-> Str("X")]] : r \in Resources}
  \cup
  { [NoRequest EXCEPT !.parsed = FALSE],
    NoRequest,
    [NoRequest EXCEPT !.verb = "LIST", !.resource = "ghost"],
    [NoRequest EXCEPT !.user = "u1"],
    [NoRequest EXCEPT !.user = "u1", !.verb = "LIST", !.resource = "ghost"],
    [NoRequest EXCEPT !.user = "u1", !.verb = "CREATE", !.resource = "article",
                      !.body = [name |-> Str("X")],
                      !.query = [NoQuery EXCEPT !.limit = 1]] }

\* processRequest from the request to the response; uuid.v4(), when the
\* handler calls it, returns an identifier never seen
Serve(request) ==
  LET r0 == Run(now, "", processRequest(db, now, "", request))
  IN  /\ \/ /\ ~StoredNew(r0.resp[1])
            /\ db' = r0.db
            /\ resp' = r0.resp[1]
            /\ issued' = issued
         \/ /\ StoredNew(r0.resp[1])
            /\ \E v4 \in Uuids \ issued :
                 LET r == Run(now, v4, processRequest(db, now, v4, request))
                 IN  /\ db' = r.db
                     /\ resp' = r.resp[1]
                     /\ issued' = issued \cup {v4}
      /\ UNCHANGED <<now, call, SCHEMAS, SCHEMAS_OPTIONS, proc>>

ApiInit ==
  /\ db = [u \in Uuids |-> Null]
  /\ now = 1
  /\ issued = {}
  /\ call = NoCall
  /\ SCHEMAS = Registered.SCHEMAS
  /\ SCHEMAS_OPTIONS = Registered.SCHEMAS_OPTIONS
  /\ proc = [p \in Procs |-> Idle]
  /\ resp = NoResp

ApiNext ==
  \/ Tick
  \/ \E request \in Requests : Serve(request)

SpecApi == ApiInit /\ [][ApiNext]_vars

----------------------------------------------------------------------------
(* The process from its start: nothing is registered at first; resources   *)
(* are registered, looked up, and requests served, in any order.           *)

\* what is registered under a name: a schema and the options that go with it
Registrations ==
  { [schema |-> ArticleSchema, options |-> ArticleOptions],
    [schema |-> OptionsSchema, options |-> OptionsOptions] }

\* the names looked up; nobody registers "ghost"
Names == Resources \cup {"ghost"}

Register(name, schema, options) ==
  LET r == registerResource(SCHEMAS, SCHEMAS_OPTIONS, name, schema, options)
  IN  /\ SCHEMAS' = r.SCHEMAS
      /\ SCHEMAS_OPTIONS' = r.SCHEMAS_OPTIONS
      /\ call' = [NoCall EXCEPT !.op = "registerResource", !.resource = name,
                    !.data = schema, !.out = Some(options), !.at = now]
      /\ UNCHANGED <<storeVars, proc, resp>>

CallGetSchema(name) ==
  /\ call' = [NoCall EXCEPT !.op = "getSchema", !.resource = name, !.at = now,
                !.threw = getSchemaThrows,
                !.out = IF getSchemaThrows THEN <<>> ELSE Some(getSchema(name))]
  /\ UNCHANGED <<storeVars, apiVars>>

CallGetResourceOptions(name) ==
  /\ call' = [NoCall EXCEPT !.op = "getResourceOptions", !.resource = name,
                !.at = now,
                !.threw = getResourceOptionsThrows,
                !.out = IF getResourceOptionsThrows THEN <<>>
                        ELSE Some(getResourceOptions(name))]
  /\ UNCHANGED <<storeVars, apiVars>>

\* one request of each kind, and those that are refused before any handler
BootRequests ==
  { [NoRequest EXCEPT !.parsed = FALSE],
    NoRequest,
    [NoRequest EXCEPT !.user = "u1"],
    [NoRequest EXCEPT !.user = "u1", !.verb = "LIST", !.resource = "ghost"],
    [NoRequest EXCEPT !.user = "u1", !.verb = "LIST", !.resource = "article"],
    [NoRequest EXCEPT !.user = "u1", !.verb = "LIST", !.resource = "article",
                      !.query = [NoQuery EXCEPT !.view = "raw"]],
    [NoRequest EXCEPT !.user = "u1", !.verb = "CREATE", !.resource = "article",
                      !.body = [name |-> Str("X")]],
    [NoRequest EXCEPT !.user = "u1", !.verb = "CREATE", !.resource = "article",
                      !.body = [name |-> Bool(TRUE)]],
    [NoRequest EXCEPT !.user = "u1", !.verb = "GET", !.resource = "article",
                      !.uuid = "x1"],
    [NoRequest EXCEPT !.user = "u1", !.verb = "REPLACE", !.resource = "article",
                      !.uuid = "x1", !.body = [name |-> Str("Y")]],
    [NoRequest EXCEPT !.user = "u1", !.verb = "UPDATE", !.resource = "article",
                      !.uuid = "x1", !.body = [name |-> Str("X")]],
    [NoRequest EXCEPT !.user = "u1", !.verb = "DELETE", !.resource = "article",
                      !.uuid = "x1"] }

BootNext ==
  \/ \E name \in Resources, r \in Registrations :
       Register(name, r.schema, r.options)
  \/ \E name \in Names : CallGetSchema(name)
  \/ \E name \in Names : CallGetResourceOptions(name)
  \/ \E request \in BootRequests : Serve(request)

SpecBoot == StoreInit /\ [][BootNext]_vars

----------------------------------------------------------------------------
(* The owner tag on its own: providers made with one prefix or another     *)
(* compute the tag of a user and a resource; first keeps the call before.  *)
(* User ids come from the identity provider and may hold a colon, as       *)
(* resource names may.                                                     *)

TagPrefixes == {"", "p"}
TagUsers == {"u1", "u1:a", "u2"}
TagResources == {"article", "a:article", "options"}

CallGetOwnerResourceType(prefix, userId, resource) ==
  /\ call' = [NoCall EXCEPT !.op = "_getOwnerResourceType", !.prefix = prefix,
                !.userId = userId, !.resource = resource, !.at = now,
                !.out = Some(OwnerResourceType(prefix, userId, resource)),
                !.first = IF call.op = "_getOwnerResourceType"
                            THEN Some([prefix |-> call.prefix,
                                       userId |-> call.userId,
                                       resource |-> call.resource,
                                       out |-> call.out])
                            ELSE <<>>]
  /\ UNCHANGED <<storeVars, apiVars>>

TagNext ==
  \E prefix \in TagPrefixes, userId \in TagUsers, resource \in TagResources :
    CallGetOwnerResourceType(prefix, userId, resource)

SpecTag == StoreInit /\ [][TagNext]_vars

----------------------------------------------------------------------------
(* Saves whose data carries the names the record keeps for itself: direct  *)
(* calls of save, and requests whose body carries them                     *)

ReservedSamples ==
  { [name |-> Str("X")],
    [name |-> Str("X"), timestamp |-> Num(0)],
    [name |-> Str("X"), uuid |-> Str("x2")],
    [name |-> Str("Y"), owned_resource_type |-> Str("/u2:article")] }

ReservedRequests ==
  {[NoRequest EXCEPT !.user = "u1", !.verb = v, !.resource = r, !.uuid = "x1",
                     !.body = b] :
     v \in {"REPLACE", "UPDATE"}, r \in Resources, b \in ReservedSamples}
  \cup
  {[NoRequest EXCEPT !.user = "u1", !.verb = "CREATE", !.resource = r,
                     !.body = b] :
     r \in Resources, b \in ReservedSamples}

ReservedNext ==
  \/ \E resource \in Resources, data_raw \in ReservedSamples,
        current_uuid \in Uuids \cup {""} :
       CallSave("u1", resource, data_raw, current_uuid)
  \/ \E request \in ReservedRequests : Serve(request)

SpecReserved == ApiInit /\ [][ReservedNext]_vars

----------------------------------------------------------------------------
(* formatItem on its own: records in their external form, formatted by     *)
(* every view of every resource, and by a view nobody declared             *)

FormatPayloads ==
  { _formatItem([uuid |-> u, timestamp |-> Num(t), data |-> data], FALSE) :
      u \in Uuids, t \in Times,
      data \in {EmptyObject, [name |-> Str("X")], [name |-> Str("Y")]} }

\* "" is the view left out
FormatViews == (DOMAIN ArticleOptions.views) \cup {"nosuch", ""}

CallFormatItem(resource, payload, view) ==
  /\ call' = [NoCall EXCEPT !.op = "formatItem", !.resource = resource,
                !.view = view, !.data = payload, !.at = now,
                !.threw = formatItem(resource, payload, view).threw,
                !.out = Some(formatItem(resource, payload, view).out),
                !.keys = formatItemKeys(resource, payload, view)]
  /\ UNCHANGED <<storeVars, apiVars>>

FormatNext ==
  \E resource \in Resources, payload \in FormatPayloads, view \in FormatViews :
    CallFormatItem(resource, payload, view)

SpecFormat == ApiInit /\ [][FormatNext]_vars

----------------------------------------------------------------------------
(* The dispatcher serving requests at the same time: the calls of the      *)
(* store that two handlers make interleave.  The first user creates,       *)
(* replaces, updates and deletes; the second only creates.                 *)

ConcurrentRequests ==
  {[NoRequest EXCEPT !.user = u, !.verb = "CREATE", !.resource = "options",
                     !.body = [name |-> Str("X")]] : u \in Users}
  \cup
  {[NoRequest EXCEPT !.user = "u1", !.verb = v, !.resource = "options", !.uuid = x,
                     !.body = [name |-> Str("Y")]] :
     x \in Uuids, v \in {"REPLACE", "UPDATE", "DELETE"}}

\* a request arrives: processRequest runs up to the handler's first call of
\* the store, or to the response if that comes first
Start(p, request) ==
  /\ proc[p].pc = "idle"
  /\ LET r0 == processRequest(db, now, "", request)
     IN  \/ /\ ~(r0.resp /= Null /\ StoredNew(r0.resp[1]))
            /\ db' = r0.db
            /\ proc' = [proc EXCEPT ![p] = r0.k]
            /\ resp' = IF r0.resp = Null THEN resp ELSE r0.resp[1]
            /\ issued' = issued
         \/ /\ r0.resp /= Null /\ StoredNew(r0.resp[1])
            /\ \E v4 \in Uuids \ issued :
                 LET r == processRequest(db, now, v4, request)
                 IN  /\ db' = r.db
                     /\ proc' = [proc EXCEPT ![p] = r.k]
                     /\ resp' = r.resp[1]
                     /\ issued' = issued \cup {v4}
  /\ UNCHANGED <<now, call, SCHEMAS, SCHEMAS_OPTIONS>>

\* the handler goes on to its next call of the store
Step(p) ==
  /\ proc[p].pc /= "idle"
  /\ \E v4 \in IF proc[p].pc = "post_save" THEN Uuids \ issued ELSE {""} :
       LET r == Advance(db, now, v4, proc[p])
       IN  /\ db' = r.db
           /\ proc' = [proc EXCEPT ![p] = r.k]
           /\ resp' = IF r.resp = Null THEN resp ELSE r.resp[1]
           /\ issued' = issued \cup (IF v4 = "" THEN {} ELSE {v4})
  /\ UNCHANGED <<now, call, SCHEMAS, SCHEMAS_OPTIONS>>

Init == ApiInit

Next ==
  \/ Tick
  \/ \E p \in Procs, request \in ConcurrentRequests : Start(p, request)
  \/ \E p \in Procs : Step(p)

Spec == Init /\ [][Next]_vars

----------------------------------------------------------------------------
(* Two tenants at the same time: the first user creates a record and       *)
(* deletes records; the second creates, replaces, updates and deletes,     *)
(* under every uuid, the first user's among them.                          *)

TenantRequests ==
  {[NoRequest EXCEPT !.user = u, !.verb = "CREATE", !.resource = "options",
                     !.body = [name |-> Str("X")]] : u \in Users}
  \cup
  {[NoRequest EXCEPT !.user = "u1", !.verb = "DELETE", !.resource = "options",
                     !.uuid = x] : x \in Uuids}
  \cup
  {[NoRequest EXCEPT !.user = "u2", !.verb = v, !.resource = "options", !.uuid = x,
                     !.body = [name |-> Str("Y")]] :
     x \in Uuids, v \in {"REPLACE", "UPDATE", "DELETE"}}

TenantNext ==
  \/ \E p \in Procs, request \in TenantRequests : Start(p, request)
  \/ \E p \in Procs : Step(p)

SpecTenants == Init /\ [][TenantNext]_vars

----------------------------------------------------------------------------
(* Properties of the DataProvider (SpecStore) *)

\* the record stored under uuid, if it carries the owner tag
StoredUnder(uuid, tag) ==
  /\ uuid \in DOMAIN db
  /\ db[uuid] /= Null
  /\ db[uuid][1].owned_resource_type.S = tag

\* the external form of the record stored under uuid, read off the table
\* attribute by attribute
ExternalFormIn(d, uuid) ==
  LET raw == d[uuid][1]
  IN  [k \in {"uuid", "timestamp"} \cup
             ((DOMAIN raw.data.M) \ {"owned_resource_type"}) |->
         CASE k = "uuid" -> Str(uuid)
           [] k = "timestamp" -> Num(raw.timestamp.n)
           [] OTHER -> [t |-> IF raw.data.M[k].T = "S" THEN "string"
                              ELSE IF raw.data.M[k].T = "N" THEN "number"
                              ELSE "boolean",
                        s |-> raw.data.M[k].s, n |-> raw.data.M[k].n]]

ExternalForm(uuid) == ExternalFormIn(db, uuid)

\* C1: getAndCheckAccess returns the record iff a record with that uuid
\* exists and its stored owner tag is the one computed from the caller's
\* (prefix, userId, resource); for a missing record and for a record of
\* another owner alike it returns null.
C1_AccessChecked ==
  call.op = "getAndCheckAccess" =>
    IF StoredUnder(call.uuid, _getOwnerResourceType(call.userId, call.resource))
      THEN call.out = Some(ExternalForm(call.uuid))
      ELSE call.out = Null

\* C1 witness: a read of a record that exists under another owner tag
C1_Witness ==
  /\ call.op = "getAndCheckAccess"
  /\ db[call.uuid] /= Null
  /\ ~StoredUnder(call.uuid, _getOwnerResourceType(call.userId, call.resource))
  /\ call.out = Null

\* C2: search returns only records whose stored owner tag is the one
\* computed from the caller's (prefix, userId, resource).
C2_SearchOwnedOnly ==
  call.op \in {"search", "next"} =>
    \A i \in 1..Len(call.out) :
      StoredUnder(call.out[i]["uuid"].s,
                  _getOwnerResourceType(call.userId, call.resource))

\* C2 witness: a search that returned a record while the table holds a
\* record of another owner tag
C2_Witness ==
  /\ call.op = "search"
  /\ Len(call.out) > 0
  /\ \E it \in Items(db) :
       it.owned_resource_type.S /=
         _getOwnerResourceType(call.userId, call.resource)

\* C4: a page of limit k < N and the search resumed after its last item
\* give together the N records of the owner tag, each once, in the order
\* asked for (stated for records whose timestamp is not later than the time
\* of the first search, so that the default range holds them all).
C4_Pagination ==
  LET tag == _getOwnerResourceType(call.userId, call.resource)
      owned == {it \in Items(db) : it.owned_resource_type.S = tag}
      pages == call.first \o call.out
      ts(i) == pages[i]["timestamp"].n
  IN  ( /\ call.op = "next"
        /\ call.opts.limit = Undef
        /\ Len(call.first) < Cardinality(owned)
        /\ \A it \in owned : it.timestamp.n <= call.at )
      =>
      ( /\ \A i, j \in 1..Len(pages) :
             i /= j => pages[i]["uuid"] /= pages[j]["uuid"]
        /\ {pages[i]["uuid"].s : i \in 1..Len(pages)} = {it.uuid.S : it \in owned}
        /\ \A i \in 1..(Len(pages) - 1) :
             IF call.opts.sort = "asc" THEN ts(i) <= ts(i + 1)
             ELSE ts(i) >= ts(i + 1) )

\* C5: getAndCheckAccess after save, with the same userId and resource and
\* the uuid save returned, yields the record save returned.
C5_RoundTrip ==
  (call.op = "getAndCheckAccess" /\ call.first /= <<>>) => call.out = call.first

\* C5 witness: the read after a save whose payload carried a name and a
\* timestamp of its own
C5_Witness ==
  /\ call.op = "getAndCheckAccess"
  /\ call.first /= <<>>
  /\ call.out /= Null
  /\ "name" \in DOMAIN call.out[1]
  /\ call.out[1]["timestamp"].n = MaxTime + 1

----------------------------------------------------------------------------
(* Properties of the dispatcher (SpecApi, Spec) *)

\* the uuids of the records d holds under the owner tag of (userId, resource)
Owned(d, userId, resource) ==
  {u \in DOMAIN d : /\ d[u] /= Null
                    /\ d[u][1].owned_resource_type.S =
                         _getOwnerResourceType(userId, resource)}

IsSingle(resource) == getResourceOptions(resource)[1].single

\* C3: for a resource registered with single = true the table holds at most
\* one record per user, whatever requests were served and however their
\* calls of the store interleave.
C3_AtMostOne ==
  \A u \in Users, r \in Resources :
    IsSingle(r) => Cardinality(Owned(db, u, r)) <= 1

\* C6: a CREATE that succeeds returns 201 and a record with a fresh uuid,
\* except on a single resource of which the caller holds a record: then it
\* returns 200, the record returned has the uuid of the one held, and the
\* caller holds no second record.
C6_CreateStatus ==
  [][ ( /\ now' = now
        /\ resp'.request.verb = "CREATE"
        /\ resp'.statusCode \in {200, 201} )
      =>
      LET rq == resp'.request
          had == Owned(db, rq.user, rq.resource)
      IN  IF IsSingle(rq.resource) /\ had /= {}
            THEN /\ resp'.statusCode = 200
                 /\ resp'.out[1]["uuid"].s \in had
                 /\ Owned(db', rq.user, rq.resource) = had
            ELSE /\ resp'.statusCode = 201
                 /\ resp'.out[1]["uuid"].s \notin issued
                 /\ Owned(db', rq.user, rq.resource) =
                      had \cup {resp'.out[1]["uuid"].s} ]_vars

\* C7 as the specification words it: an UPDATE that ends in a validation
\* failure of the merged record has sent no command to the store.
C7_NoStorageCall ==
  (resp.request.verb = "UPDATE" /\ resp.statusCode = 422) => resp.sent = <<>>

\* C7: an UPDATE whose merged record fails the resource schema ends in a
\* validation failure after the one read of the record (GetItem) that the
\* merge needs and before any write: nothing is stored.
C7_ReadThenFail ==
  [][ ( /\ now' = now
        /\ resp'.request.verb = "UPDATE"
        /\ resp'.statusCode = 422 )
      => (resp'.sent = <<"GetItem">> /\ db' = db) ]_vars

\* C7 witness: UPDATE of a record the caller owns with a body whose name is
\* a boolean
C7_Witness ==
  /\ resp.request.verb = "UPDATE"
  /\ resp.statusCode = 422
  /\ resp.request.body = [name |-> Bool(TRUE)]
  /\ resp.request.uuid \in Owned(db, resp.request.user, resp.request.resource)
  /\ resp.details = {"name"}

C9_ErrorEnvelope ==
  /\ ~resp.threw
  /\ resp.statusCode = 422 =>
       /\ resp.message = "Validation error"
       /\ resp.details /= {}
       /\ resp.details \subseteq
            (DOMAIN resp.request.body) \cup (DOMAIN resp.request.query)
               \cup DOMAIN SCHEMAS[1][resp.request.resource]
       /\ resp.out = <<>>
  /\ resp.statusCode = 500 =>
       /\ resp.message = "Something went wrong"
       /\ resp.details = {}
       /\ resp.out = <<>>

\* C9 witness: a search the store rejects (start after end) answered by 500
C9_Witness ==
  /\ resp.statusCode = 500
  /\ resp.request.verb = "LIST"
  /\ resp.request.query.start = MaxTime
  /\ resp.sent = <<"Query">>

\* what REPLACE saves for a body: the body without uuid, and without
\* timestamp when the schema of the resource declares none
ReplacePayload(resource, body) ==
  LET p1 == Delete(body, "uuid")
  IN  IF "timestamp" \in DOMAIN SCHEMAS[1][resource]
        THEN p1 ELSE Delete(p1, "timestamp")

C11_UpdateMerge ==
  [][ ( /\ now' = now
        /\ resp'.request.verb = "UPDATE"
        /\ resp'.statusCode = 200 )
      =>
      LET rq == resp'.request
          u == rq.uuid
          old == ExternalFormIn(db, u)
          new == ExternalFormIn(db', u)
          body == rq.body
          reserved == {"uuid", "timestamp"}
      IN  /\ u \in Owned(db, rq.user, rq.resource)
          /\ u \in Owned(db', rq.user, rq.resource)
          /\ \A x \in Uuids \ {u} : db'[x] = db[x]
          /\ DOMAIN db'[u][1].data.M \cap reserved = {}
          /\ DOMAIN new = (DOMAIN old) \cup (DOMAIN body) \cup reserved
          /\ \A f \in (DOMAIN new) \ reserved :
               new[f] = IF f \in DOMAIN body THEN body[f] ELSE old[f]
          /\ new["uuid"] = Str(u)
          /\ new["timestamp"] =
               IF "timestamp" \in DOMAIN SCHEMAS[1][rq.resource]
                 THEN IF "timestamp" \in DOMAIN body
                        THEN body["timestamp"] ELSE old["timestamp"]
                 ELSE Num(now) ]_vars

\* C11 witness: an UPDATE with an empty body answered by 200 with the name
\* the record had
C11_Witness ==
  /\ resp.request.verb = "UPDATE"
  /\ resp.statusCode = 200
  /\ resp.request.body = EmptyObject
  /\ "name" \in DOMAIN resp.out[1]

\* C12: DELETE removes the record and answers 200 exactly when the caller
\* owns a record of the path's uuid under the path's resource; otherwise it
\* answers 404, the table is unchanged and only the lookup went to the
\* store.
C12_Delete ==
  [][ (now' = now /\ resp'.request.verb = "DELETE")
      =>
      LET rq == resp'.request
      IN  IF rq.uuid \in Owned(db, rq.user, rq.resource)
            THEN /\ resp'.statusCode = 200
                 /\ resp'.sent = <<"GetItem", "DeleteItem">>
                 /\ db'[rq.uuid] = Null
                 /\ \A x \in Uuids \ {rq.uuid} : db'[x] = db[x]
            ELSE /\ resp'.statusCode = 404
                 /\ resp'.sent = <<"GetItem">>
                 /\ db' = db ]_vars

\* C12 witness: DELETE of a record that exists under another owner tag,
\* answered by 404
C12_Witness ==
  /\ resp.request.verb = "DELETE"
  /\ resp.statusCode = 404
  /\ db[resp.request.uuid] /= Null

\* the caller's records a LIST without range sees: those whose timestamp
\* is not later than the time of the request
Listed(d, t, userId, resource) ==
  {u \in Owned(d, userId, resource) : d[u][1].timestamp.n <= t}

\* the record of S latest in the index
Latest(d, S) ==
  CHOOSE u \in S : \A v \in S :
    u = v \/ IndexBefore(IndexKey(d[v][1]), IndexKey(d[u][1]))

\* C13: a LIST of a registered resource that the handler answers (no
\* validation failure, no error)
\* returns 200 with the caller's records, each formatted by the view asked
\* for, latest first; for a single resource it returns 200 with the first
\* of them alone, or 404 when there is none.
C13_List ==
  [][ ( /\ now' = now
        /\ resp'.request.verb = "LIST"
        /\ resp'.request.user /= ""
        /\ resp'.request.resource \in DOMAIN SCHEMAS[1]
        /\ resp'.statusCode \notin {422, 500} )
      =>
      LET rq == resp'.request
          listed == Listed(db, now, rq.user, rq.resource)
          shown(u) == formatItem(rq.resource, ExternalFormIn(db, u),
                                 viewOf(rq.query)).out
          n == IF rq.query.limit \in {Undef, 0} \/ rq.query.limit > Cardinality(listed)
                 THEN Cardinality(listed) ELSE rq.query.limit
      IN  IF IsSingle(rq.resource)
            THEN IF listed = {}
                   THEN resp'.statusCode = 404 /\ resp'.out = <<>>
                   ELSE /\ resp'.statusCode = 200
                        /\ ~resp'.list
                        /\ resp'.out = Some(shown(Latest(db, listed)))
            ELSE /\ resp'.statusCode = 200
                 /\ resp'.list
                 /\ Len(resp'.out) = n
                 /\ \E order \in [1..n -> listed] :
                      /\ \A i, j \in 1..n : i /= j => order[i] /= order[j]
                      /\ \A i \in 1..n : resp'.out[i] = shown(order[i])
                      /\ \A i \in 1..n : \A v \in listed :
                           (\A j \in 1..i : order[j] /= v) =>
                             IndexBefore(IndexKey(db[v][1]), IndexKey(db[order[i]][1]))
                 /\ db' = db ]_vars

\* C13 witness: a LIST of a single resource answered by 200 with one record
\* where the caller holds two
C13_Witness ==
  /\ resp.request.verb = "LIST"
  /\ resp.request.resource = "options"
  /\ IsSingle(resp.request.resource)
  /\ resp.statusCode = 200
  /\ ~resp.list
  /\ Cardinality(Owned(db, resp.request.user, resp.request.resource)) = 2

----------------------------------------------------------------------------
(* Further properties of the DataProvider (SpecStore) *)

\* C14: save without uuid stores the record under an identifier not used
\* before, with the time of the call as its timestamp; save with a uuid
\* stores it under that uuid, with the payload's timestamp when it carries
\* one and the time of the call otherwise.  Either way the record is put
\* under the owner tag of (userId, resource) and no other record changes.
C14_Save ==
  [][ (now' = now /\ call'.op = "save")
      =>
      LET c == call'
          u == c.uuid
          rec == db'[u][1]
      IN  /\ db'[u] /= Null
          /\ rec.owned_resource_type.S = _getOwnerResourceType(c.userId, c.resource)
          /\ \A x \in Uuids \ {u} : db'[x] = db[x]
          /\ IF c.current_uuid = ""
               THEN u \notin issued /\ rec.timestamp.n = now
               ELSE /\ u = c.current_uuid
                    /\ rec.timestamp.n =
                         IF "timestamp" \in DOMAIN c.data
                           THEN c.data["timestamp"].n ELSE now ]_vars

\* C15: a search (without limit or cursor) returns exactly the caller's
\* records whose timestamp lies in [start, end], with start 0 and end the
\* time of the call when not given, and as given otherwise, 0 included.
C15_Range ==
  ( /\ call.op = "search"
    /\ ~call.threw
    /\ call.opts.limit = Undef
    /\ call.opts.last_uuid = "" )
  =>
  LET range == [start |-> IF call.opts.start = Undef THEN 0 ELSE call.opts.start,
                end |-> IF call.opts.end = Undef THEN call.at ELSE call.opts.end]
  IN  {call.out[i]["uuid"].s : i \in 1..Len(call.out)} =
        {u \in Owned(db, call.userId, call.resource) :
           /\ db[u][1].timestamp.n >= range.start
           /\ db[u][1].timestamp.n <= range.end}

\* C16: a search with limit k, 0 included, returns at most k records: the
\* first k of what the same search returns without limit.
C16_Limit ==
  ( /\ call.op = "search"
    /\ ~call.threw
    /\ call.opts.limit /= Undef )
  =>
  /\ Len(call.out) <= call.opts.limit
  /\ call.out = Take(search(db, call.at, call.userId, call.resource,
                            [call.opts EXCEPT !.limit = Undef]).items,
                     call.opts.limit)

\* C17: a search given both last_uuid and last_timestamp, 0 included,
\* returns only records strictly after that position in the order asked
\* for: neither the record of the cursor nor one before it.
C17_Cursor ==
  ( /\ call.op \in {"search", "next"}
    /\ ~call.threw
    /\ call.opts.last_uuid /= ""
    /\ call.opts.last_timestamp /= Undef )
  =>
  LET cursor == [timestamp |-> call.opts.last_timestamp,
                 uuid |-> call.opts.last_uuid]
      key(i) == [timestamp |-> call.out[i]["timestamp"].n,
                 uuid |-> call.out[i]["uuid"].s]
  IN  \A i \in 1..Len(call.out) :
        IF call.opts.sort = "asc" THEN IndexBefore(cursor, key(i))
        ELSE IndexBefore(key(i), cursor)

----------------------------------------------------------------------------
(* The order of a LIST *)

\* the records of a LIST's answer, as positions of the index
Shown(i) == IndexKey(db[resp.out[i]["uuid"].s][1])

\* C18 as amended: a LIST answered by 200 with a list gives the records
\* latest first, and a LIST whose query carries sort fails the validation
\* of the query: 422 naming sort, with no storage call.
C18_ListOrder ==
  (resp.request.verb = "LIST" /\ resp.request.user /= "")
  =>
  /\ (resp.statusCode = 200 /\ resp.list)
       => \A i, j \in 1..Len(resp.out) :
            i < j => IndexBefore(Shown(j), Shown(i))
  /\ resp.request.query.sort /= ""
       => /\ resp.statusCode = 422
          /\ "sort" \in resp.details
          /\ resp.sent = <<>>

\* C18 witness: a LIST with sort "asc" refused as invalid while the caller
\* holds two records
C18_Witness ==
  /\ resp.request.verb = "LIST"
  /\ resp.request.query.sort = "asc"
  /\ resp.statusCode = 422
  /\ Cardinality(Owned(db, resp.request.user, resp.request.resource)) = 2

\* C18: a LIST whose query carries sort "asc" or "desc" passes the
\* validation of the query, and gives the records earliest first when sort
\* is "asc", latest first otherwise.
C18_SortRecognized ==
  (resp.request.verb = "LIST" /\ resp.request.user /= "")
  =>
  /\ resp.request.query.sort \in {"asc", "desc"}
       => resp.statusCode /= 422
  /\ (resp.statusCode = 200 /\ resp.list)
       => \A i, j \in 1..Len(resp.out) :
            i < j => IF resp.request.query.sort = "asc"
                       THEN IndexBefore(Shown(i), Shown(j))
                       ELSE IndexBefore(Shown(j), Shown(i))

----------------------------------------------------------------------------
(* The views of formatItem (SpecFormat) *)

\* the view a call of formatItem names, when the resource declares it
ViewOfCall == SCHEMAS_OPTIONS[1][call.resource].views[call.view]

\* C19: for a view that is a list of fields, formatItem returns exactly the
\* listed fields the record has, under their names and with the record's
\* values, and in the order of the list.
C19_ArrayView ==
  ( /\ call.op = "formatItem"
    /\ call.view \in DOMAIN SCHEMAS_OPTIONS[1][call.resource].views
    /\ ViewOfCall.kind = "array" )
  =>
  LET fields == ViewOfCall.from
      out == call.out[1]
      Has(k) == k \in DOMAIN call.data
  IN  /\ ~call.threw
      /\ DOMAIN out = Range(fields) \cap DOMAIN call.data
      /\ \A k \in DOMAIN out : out[k] = call.data[k]
      /\ call.keys = SelectSeq(fields, Has)

\* C20: for a view that maps fields to names, formatItem returns exactly one
\* entry name = record[field] for each mapped field the record has, and in
\* the order of the map.
C20_ObjectView ==
  ( /\ call.op = "formatItem"
    /\ call.view \in DOMAIN SCHEMAS_OPTIONS[1][call.resource].views
    /\ ViewOfCall.kind = "object" )
  =>
  LET from == ViewOfCall.from
      to == ViewOfCall.to
      out == call.out[1]
      Has(i) == from[i] \in DOMAIN call.data
      present == SelectSeq([i \in 1..Len(from) |-> i], Has)
  IN  /\ ~call.threw
      /\ DOMAIN out = {to[present[j]] : j \in 1..Len(present)}
      /\ \A j \in 1..Len(present) : out[to[present[j]]] = call.data[from[present[j]]]
      /\ call.keys = [j \in 1..Len(present) |-> to[present[j]]]

----------------------------------------------------------------------------
(* The registry and the dispatcher from the start of the process (SpecBoot) *)

\* what a table of the registry holds under a name: Null when the table is
\* not there or has no such name
Entry(table, name) ==
  IF table = Null THEN Null
  ELSE IF name \in DOMAIN table[1] THEN Some(table[1][name]) ELSE Null

C29_Total ==
  resp /= NoResp => (~resp.threw /\ resp.statusCode /= 0)

----------------------------------------------------------------------------
(* The owner tag (SpecTag) *)

\* C24: two triples of prefix, user and resource that get the same owner
\* tag are the same triple.
C24_TagIdentifies ==
  ( /\ call.op = "_getOwnerResourceType"
    /\ call.first /= <<>>
    /\ call.out = call.first[1].out )
  =>
  /\ call.prefix = call.first[1].prefix
  /\ call.userId = call.first[1].userId
  /\ call.resource = call.first[1].resource

----------------------------------------------------------------------------
(* remove and the reserved names (SpecStore) *)

\* C25: remove returns true for every uuid, whether a record is stored
\* under it or not and whoever owns it; afterwards nothing is stored under
\* that uuid, and every other record is as it was.
C25_Remove ==
  [][ (now' = now /\ call'.op = "remove")
      =>
      /\ ~call'.threw
      /\ call'.out = Some(Bool(TRUE))
      /\ db'[call'.uuid] = Null
      /\ \A x \in Uuids \ {call'.uuid} : db'[x] = db[x] ]_vars

\* C25 witness: remove called again for a uuid it has just removed, while
\* a record of another uuid stays stored
C25_Witness ==
  /\ call.op = "remove"
  /\ call.first = Some(Bool(TRUE))
  /\ call.uuid \in issued
  /\ db[call.uuid] = Null
  /\ \E x \in Uuids : db[x] /= Null

\* C26: the data of a stored record never has a field named uuid,
\* owned_resource_type or timestamp, whether the record was saved for a
\* request or by a direct call of save.
C26_ReservedNames ==
  \A u \in Uuids :
    db[u] /= Null
      => DOMAIN db[u][1].data.M \cap {"uuid", "owned_resource_type", "timestamp"} = {}

----------------------------------------------------------------------------
(* Tenants (SpecTenants) *)

\* the owner tags of a user
TagsOf(u) == {_getOwnerResourceType(u, r) : r \in Resources}

\* the user a stored record belongs to, by its owner tag
OwnerOf(item) == {u \in Users : item[1].owned_resource_type.S \in TagsOf(u)}

\* the handlers about to save under the uuid their ownership check passed for
Savers(x) ==
  {p \in Procs : proc[p].pc \in {"replace_save", "update_save"} /\ proc[p].uuid = x}

\* C27: whatever the interleaving of the calls of the store, a record is
\* created, overwritten or deleted only by a request of the user whose
\* owner tag it is stored under, and the owner tag stored under a uuid
\* never changes: an overwrite keeps it, and a handler about to save under
\* a uuid saves under the tag the record has, or had before it was deleted.
C27_Isolation ==
  [][ /\ \A x \in Uuids :
           LET actors == {proc[p].user : p \in {q \in Procs : /\ proc[q].pc /= "idle"
                                                             /\ proc'[q] /= proc[q]}}
           IN  /\ (db[x] /= Null /\ db'[x] /= db[x]) => actors = OwnerOf(db[x])
               /\ (db'[x] /= Null /\ db'[x] /= db[x]) => actors = OwnerOf(db'[x])
               /\ (db[x] /= Null /\ db'[x] /= Null)
                    => db'[x][1].owned_resource_type = db[x][1].owned_resource_type
      /\ \A x \in Uuids : \A p \in Savers(x) :
           /\ db[x] /= Null
                => db[x][1].owned_resource_type.S =
                     _getOwnerResourceType(proc[p].user, proc[p].resource)
           /\ \A q \in Savers(x) :
                proc[q].user = proc[p].user /\ proc[q].resource = proc[p].resource
    ]_vars

\* C27 witness: the second user's request for a record of the first is
\* answered 404 while the first user's DELETE of that record is under way
C27_Witness ==
  /\ resp.request.user = "u2"
  /\ resp.request.verb \in {"REPLACE", "UPDATE", "DELETE"}
  /\ resp.statusCode = 404
  /\ db[resp.request.uuid] /= Null
  /\ OwnerOf(db[resp.request.uuid]) = {"u1"}
  /\ \E p \in Procs : /\ proc[p].pc = "delete_remove"
                      /\ proc[p].user = "u1"
                      /\ proc[p].uuid = resp.request.uuid

----------------------------------------------------------------------------
(* Deletes and the saves under way (Spec) *)

\* C28 as amended: a uuid whose record was deleted is stored again only by
\* the save of a REPLACE or UPDATE for that uuid that had passed its
\* ownership check before the delete; no handler passes the check for it
\* afterwards, and no other call stores under it.
C28_OnlySavesUnderWay ==
  [][ \A x \in Uuids :
        (x \in issued /\ db[x] = Null)
        =>
        /\ \A p \in Procs :
             (proc'[p].pc \in {"replace_save", "update_save"} /\ proc'[p].uuid = x)
               => proc'[p] = proc[p]
        /\ db'[x] /= Null
             => \E p \in Savers(x) : proc'[p] /= proc[p] ]_vars

\* C28 witness: a DELETE has been answered 200 and its record is gone,
\* while an UPDATE or REPLACE that passed its check for the same uuid is
\* about to save
C28_Witness ==
  /\ resp.request.verb = "DELETE"
  /\ resp.statusCode = 200
  /\ resp.request.uuid \in issued
  /\ db[resp.request.uuid] = Null
  /\ Savers(resp.request.uuid) /= {}

\* C28: once a DELETE of a uuid has been answered 200, nothing is stored
\* under that uuid again.
C28_DeletedStaysDeleted ==
  [][ ( /\ resp.request.verb = "DELETE"
        /\ resp.statusCode = 200
        /\ db[resp.request.uuid] = Null )
      => db'[resp.request.uuid] = Null ]_vars

----------------------------------------------------------------------------
(* What a request leaves alone (SpecApi) *)

\* C30: a request answered 400, 401, 404 or 422, and a LIST or GET
\* whatever its answer, sends no PutItem and no DeleteItem and leaves the
\* table as it was.
C30_StoreUnchanged ==
  [][ ( /\ now' = now
        /\ \/ resp'.statusCode \in {400, 401, 404, 422}
           \/ resp'.request.verb \in {"LIST", "GET"} )
      =>
      /\ db' = db
      /\ issued' = issued
      /\ "PutItem" \notin Range(resp'.sent)
      /\ "DeleteItem" \notin Range(resp'.sent) ]_vars

\* C30 witness: a REPLACE of a record stored under another owner tag is
\* answered 404 after its one read
C30_Witness ==
  /\ resp.request.verb = "REPLACE"
  /\ resp.statusCode = 404
  /\ resp.sent = <<"GetItem">>
  /\ db[resp.request.uuid] /= Null

====
